---- MODULE Spec2Model ----
(***************************************************************************)
(* Clinical-measurement ETL: identity assignment, dimension upserts, bulk  *)
(* load and incremental aggregation merge (etl-service/src).               *)
(*                                                                         *)
(* Spec      the single-machine path, one job at a time (load_data with    *)
(*           the merge it triggers, and upsert_measurement_aggs re-run)    *)
(* SpecId    make_deterministic_id and id_udf (make_row_id) applied to     *)
(*           rows drawn from a bounded set of field values                 *)
(* SpecConc  two jobs whose loads and merges interleave on one store       *)
(* SpecRecover  jobs that may stop between the commit of load_data and the *)
(*           merge, and the merge run again with their identifiers         *)
(* SpecJob   process_etl_job stage by stage, with the job status and the   *)
(*           store connections                                             *)
(* SpecSpark etl_spark_job.main stage by stage, with the job status        *)
(***************************************************************************)
EXTENDS Integers, Sequences, FiniteSets, TLC

VARIABLES
    facts,          \* clinical_measurements: row -> number of persisted copies
    studies,        \* studies(study_id)
    participants,   \* participants(participant_id)
    sites,          \* sites(site_id)
    enrollments,    \* participant_enrollments: (participant_id, study_id) -> enrolled_at
    aggs,           \* measurement_aggregations: bucket key -> bucket
    mergedRows,     \* history: row -> number of times a merge has folded it into its bucket
    hist,           \* history: the last two calls, each with its input and outcome
    calls,          \* history: the number of calls made so far
    remerges,       \* history: the number of direct calls of upsert_measurement_aggs so far
    pre,            \* history: the store as it was before the last call
    idLog,          \* SpecId: the calls of make_deterministic_id, each with its row and result
    pc,             \* SpecConc: job -> position in load_data / upsert_measurement_aggs
    jobBatch,       \* SpecConc: job -> the rows of its file
    jobRows,        \* SpecConc: job -> partial groups fetched by the collapse query, still to merge
    txAggs,         \* SpecConc: job -> bucket rows written by its open transaction
    stmtSnap,       \* SpecConc: job -> measurement_aggregations as of the start of its INSERT statement
    base,           \* SpecConc: the store before either job started
    udfLog,         \* SpecId: the calls of id_udf (make_row_id), each with its row and result
    pending,        \* SpecRecover: identifiers committed by a load whose merge has not run
    twin,           \* SpecRecover: the store of the same loads run without interruption
    jobPc,          \* SpecJob: position of the job in process_etl_job
    jobFile,        \* SpecJob: the file the job was submitted with
    jobStatus,      \* SpecJob: etl_jobs.status of the job
    jobMessage,     \* SpecJob: etl_jobs.message of the job
    jobTrail,       \* SpecJob: the stages the job has run so far, each with its result
    jobLog,         \* SpecJob: the row of the job in etl_jobs after each write of its status
    conns           \* SpecJob: the store connections that are open, by job and by the operation that opened them

storeVars == <<facts, studies, participants, sites, enrollments, aggs>>
histVars  == <<mergedRows, hist, calls, remerges, pre>>
concVars  == <<pc, jobBatch, jobRows, txAggs, stmtSnap, base>>
extVars   == <<udfLog, pending, twin, jobPc, jobFile, jobStatus, jobMessage, jobTrail, jobLog,
               conns>>
vars      == <<storeVars, histVars, idLog, extVars, concVars>>

(***************************************************************************)
(* Bounds of the model.                                                    *)
(***************************************************************************)
MaxBatch   == 2    \* rows in one file
MaxCalls   == 3    \* calls in one behaviour of Spec
MaxRemerge == 1    \* direct re-runs of upsert_measurement_aggs in one behaviour
MaxIdCalls == 2    \* calls of make_deterministic_id in one behaviour of SpecId
MaxJobs    == 2    \* jobs in one behaviour of SpecJob

(***************************************************************************)
(* Program constants.                                                      *)
(***************************************************************************)
LowQualityPct == 95    \* quality_score < 0.95, in hundredths
HoursPerDay   == 24    \* DATE_TRUNC('day', "timestamp"), timestamps in hours

(***************************************************************************)
(* Exact rationals <<n, d>> in lowest terms, d > 0: the values of AVG and  *)
(* of the weighted-average expression of the merge.                        *)
(***************************************************************************)
RECURSIVE Gcd(_, _)
Gcd(a, b) == IF b = 0 THEN a ELSE Gcd(b, a % b)

Frac(n, d) == LET g == Gcd(n, d) IN IF g = 0 THEN <<0, 1>> ELSE <<n \div g, d \div g>>

FracOfInt(n) == <<n, 1>>

FracAdd(x, y) == Frac(x[1] * y[2] + y[1] * x[2], x[2] * y[2])

FracMulInt(x, k) == Frac(x[1] * k, x[2])

FracDivInt(x, k) == Frac(x[1], x[2] * k)

RECURSIVE SumFracs(_, _)
SumFracs(f, S) ==
    IF S = {} THEN FracOfInt(0)
    ELSE LET x == CHOOSE y \in S : TRUE IN FracAdd(f[x], SumFracs(f, S \ {x}))

RECURSIVE SumFn(_, _)
SumFn(f, S) ==
    IF S = {} THEN 0
    ELSE LET x == CHOOSE y \in S : TRUE IN f[x] + SumFn(f, S \ {x})

SetMin(S) == CHOOSE x \in S : \A y \in S : x <= y

SetMax(S) == CHOOSE x \in S : \A y \in S : x >= y

Least(a, b) == IF a <= b THEN a ELSE b

Greatest(a, b) == IF a >= b THEN a ELSE b

(***************************************************************************)
(* Rows of a cleaned, validated file.  Timestamps are UTC instants in      *)
(* hours, quality_score is in hundredths.                                  *)
(***************************************************************************)
MkRow(sid, pid, st, ty, v, ts, q) ==
    [study_id |-> sid, participant_id |-> pid, site_id |-> st,
     measurement_type |-> ty, value |-> v, timestamp |-> ts, quality_score |-> q]

R10  == MkRow("S1", "P1", "siteA", "glucose", 100, 10, 90)
R12  == MkRow("S1", "P1", "siteA", "glucose", 101, 12, 99)
R14  == MkRow("S1", "P1", "siteA", "glucose", 120, 14, 99)
R10b == MkRow("S1", "P1", "siteB", "glucose", 100, 10, 99)
R38  == MkRow("S2", "P2", "siteB", "weight", 95, 38, 80)
R40  == MkRow("S2", "P2", "siteB", "weight", 85, 40, 99)

\* every row the store can hold
Universe == {R10, R12, R14, R10b, R38, R40}

\* the files offered to load_data in Spec
Batches == {b \in SUBSET (Universe \ {R40}) : Cardinality(b) <= MaxBatch}

\* the files of the two jobs of SpecConc
ConcBatches == {b \in SUBSET {R10, R12, R38, R40} : b # {} /\ Cardinality(b) <= MaxBatch}

\* the rows given to make_deterministic_id in SpecId: identifiers with and
\* without the delimiter in them, and two values of a column outside the key
IdRows ==
    {MkRow(sid, pid, st, "glucose", v, ts, 90) :
        sid \in {"A", "A|B"}, pid \in {"C", "B|C"}, st \in {"siteA", "siteB"},
        v \in {100, 120}, ts \in {10, 14}}

(***************************************************************************)
(* Identity assignment (make_deterministic_id).                            *)
(***************************************************************************)
\* str() of a field: text is kept as it is, an instant and a number are rendered
StrText(s) == s

StrTimestamp(ts) == ToString(ts)

StrValue(v) == ToString(v)

\* faulty variant of the key: a column outside the five is joined in as well
JoinKeyWithSite(row) ==
    StrText(row.study_id) \o "|" \o StrText(row.participant_id) \o "|"
        \o StrTimestamp(row.timestamp) \o "|" \o StrText(row.measurement_type)
        \o "|" \o StrValue(row.value) \o "|" \o StrText(row.site_id)

\* "|".join(str(row[col]) for col in (study_id, participant_id, timestamp,
\*                                    measurement_type, value))
JoinKey(row) ==
    StrText(row.study_id) \o "|" \o StrText(row.participant_id) \o "|"
        \o StrTimestamp(row.timestamp) \o "|" \o StrText(row.measurement_type)
        \o "|" \o StrValue(row.value)

\* str(uuid.UUID(hashlib.md5(key).hexdigest())): the digest taken as injective
Md5Uuid(key) == <<"uuid", key>>

MakeDeterministicId(row) == Md5Uuid(JoinKey(row))

\* the five business-key fields of a row
KeyFields(row) ==
    <<row.study_id, row.participant_id, row.timestamp, row.measurement_type, row.value>>

\* the id column of the rows: df.insert(0, 'id', df.apply(make_deterministic_id, axis=1))
IdCol == [r \in Universe |-> MakeDeterministicId(r)]

IdsOf(batch) == {IdCol[r] : r \in batch}

AllIds == IdsOf(Universe \ {R40})

\* the names bound in helper.py: its imports and its four functions
HelperNames ==
    {"os", "psycopg2", "datetime", "logger", "OperationalError", "DatabaseError",
     "Tuple", "execute_values", "update_etl_job_status", "get_db_cursor",
     "make_row_id", "upsert_measurement_aggs"}

\* the result of a call that raises instead of returning
Raised(exc) == <<"raised", exc>>

\* make_row_id builds the five-column row and looks make_deterministic_id up
\* in the namespace of helper.py
MakeRowId(study_id, participant_id, timestamp, measurement_type, value) ==
    LET row == [study_id |-> study_id, participant_id |-> participant_id,
                timestamp |-> timestamp, measurement_type |-> measurement_type,
                value |-> value]
    IN  IF "make_deterministic_id" \in HelperNames
        THEN MakeDeterministicId(row)
        ELSE Raised("NameError")

\* id_udf(col("study_id"), col("participant_id"), col("timestamp"),
\*        col("measurement_type"), col("value")) on one row of the frame
IdUdf(row) ==
    MakeRowId(row.study_id, row.participant_id, row.timestamp,
              row.measurement_type, row.value)

(***************************************************************************)
(* The relational store.                                                   *)
(***************************************************************************)
NoFacts == [r \in Universe |-> 0]

EmptyAggs == [k \in {} |-> 0]

EmptyDB ==
    [facts |-> NoFacts, studies |-> {}, participants |-> {}, sites |-> {},
     enrollments |-> [p \in {} |-> 0], aggs |-> EmptyAggs]

DB ==
    [facts |-> facts, studies |-> studies, participants |-> participants,
     sites |-> sites, enrollments |-> enrollments, aggs |-> aggs]

\* the identifiers present in clinical_measurements
StoredIds(f) == {IdCol[r] : r \in {x \in Universe : f[x] > 0}}

\* clinical_measurements is keyed by the identifier: COPY raises a unique
\* violation when a row's identifier is already stored or occurs twice in the batch
UniqueViolation(f, batch) ==
    \/ IdsOf(batch) \cap StoredIds(f) # {}
    \/ \E r1, r2 \in batch : r1 # r2 /\ IdCol[r1] = IdCol[r2]

\* value_num: the numeric reading of the value column
ValueNum(r) == r.value

\* SQL NULL
Null == <<>>

\* bp_systolic and bp_diastolic: nullable columns of clinical_measurements that
\* COPY does not write; the store fills them for the rows of BpRows
BpRows == {R12, R14}

BpSystolic(r) == IF r \in BpRows THEN FracOfInt(r.value) ELSE Null

BpDiastolic(r) == IF r \in BpRows THEN FracOfInt(r.value \div 2) ELSE Null

(***************************************************************************)
(* Dimension upserts of load_data.                                         *)
(***************************************************************************)
\* faulty variant of the registration: the keys of the batch replace the registry
UpsertKeysReplace(registry, keys) == keys

\* INSERT ... ON CONFLICT DO NOTHING, once per distinct key of the batch
UpsertKeys(registry, keys) == registry \cup keys

\* faulty variant of first_seen: the latest timestamp of the pair in the batch
FirstSeenLatest(batch, pair) ==
    SetMax({r.timestamp : r \in {x \in batch : <<x.participant_id, x.study_id>> = pair}})

\* first_seen = grp['timestamp'].min()
FirstSeen(batch, pair) ==
    SetMin({r.timestamp : r \in {x \in batch : <<x.participant_id, x.study_id>> = pair}})

\* faulty variants of the conflict clause: EXCLUDED.enrolled_at alone, and GREATEST for LEAST
EnrollConflictOverwrite(stored, excluded) == excluded

EnrollConflictGreatest(stored, excluded) == Greatest(stored, excluded)

\* ON CONFLICT (participant_id, study_id) DO UPDATE SET enrolled_at = LEAST(stored, EXCLUDED)
EnrollConflict(stored, excluded) == Least(stored, excluded)

UpsertEnrollments(enr, batch) ==
    LET pairs == {<<r.participant_id, r.study_id>> : r \in batch}
    IN  [p \in DOMAIN enr \cup pairs |->
            IF p \notin pairs THEN enr[p]
            ELSE IF p \in DOMAIN enr THEN EnrollConflict(enr[p], FirstSeen(batch, p))
            ELSE FirstSeen(batch, p)]

(***************************************************************************)
(* Aggregation merge (upsert_measurement_aggs).                            *)
(***************************************************************************)
\* faulty variant of the grouping: the timestamp is not truncated to its day
BucketKeyNoTrunc(r) ==
    [agg_day |-> r.timestamp, study_id |-> r.study_id,
     site_id |-> r.site_id, participant_id |-> r.participant_id,
     measurement_type |-> r.measurement_type]

\* GROUP BY DATE_TRUNC('day', "timestamp")::date, study_id, site_id, participant_id, measurement_type
BucketKey(r) ==
    [agg_day |-> r.timestamp \div HoursPerDay, study_id |-> r.study_id,
     site_id |-> r.site_id, participant_id |-> r.participant_id,
     measurement_type |-> r.measurement_type]

\* faulty variant of src: every stored row that shares a bucket key with a
\* row of the identifiers
SrcRowsOfBuckets(f, ids) ==
    {r \in Universe :
        /\ f[r] > 0
        /\ \E x \in Universe : f[x] > 0 /\ IdCol[x] \in ids /\ BucketKey(x) = BucketKey(r)}

\* faulty variant of src: every stored row, whatever its identifier
SrcRowsAll(f, ids) == {r \in Universe : f[r] > 0}

\* src: SELECT * FROM clinical_measurements WHERE id = ANY(ids)
SrcRows(f, ids) == {r \in Universe : f[r] > 0 /\ IdCol[r] \in ids}

IsLowQuality(r) == r.quality_score < LowQualityPct

\* AVG over a nullable column: the mean of the non-null values, NULL when there is none
AvgNullable(f, G, col) ==
    LET N == {r \in G : col[r] # Null}
    IN  IF N = {} THEN Null
        ELSE FracDivInt(SumFracs([r \in N |-> FracMulInt(col[r], f[r])], N),
                        SumFn([r \in N |-> f[r]], N))

\* agg: one partial group of the collapse query
PartialAgg(f, src, k) ==
    LET G   == {r \in src : BucketKey(r) = k}
        cnt == SumFn([r \in G |-> f[r]], G)
    IN  [measurement_count |-> cnt,
         avg_value         |-> Frac(SumFn([r \in G |-> f[r] * ValueNum(r)], G), cnt),
         min_value         |-> SetMin({ValueNum(r) : r \in G}),
         max_value         |-> SetMax({ValueNum(r) : r \in G}),
         avg_systolic      |-> AvgNullable(f, G, [r \in G |-> BpSystolic(r)]),
         avg_diastolic     |-> AvgNullable(f, G, [r \in G |-> BpDiastolic(r)]),
         avg_quality_score |-> Frac(SumFn([r \in G |-> f[r] * r.quality_score], G), cnt),
         low_quality_count |-> SumFn([r \in G |-> IF IsLowQuality(r) THEN f[r] ELSE 0], G)]

\* faulty variant of the weighted average: the two averages blended without their counts
MergeAvgBlend(oavg, ocnt, pavg, pcnt) == FracDivInt(FracAdd(oavg, pavg), 2)

\* faulty variant of the weighted average: the weighted sum divided by EXCLUDED's count alone
MergeAvgDropCount(oavg, ocnt, pavg, pcnt) ==
    FracDivInt(FracAdd(FracMulInt(oavg, ocnt), FracMulInt(pavg, pcnt)), pcnt)

\* (stored.avg * stored.count + EXCLUDED.avg * EXCLUDED.count) / (stored.count + EXCLUDED.count)
MergeAvg(oavg, ocnt, pavg, pcnt) ==
    FracDivInt(FracAdd(FracMulInt(oavg, ocnt), FracMulInt(pavg, pcnt)), ocnt + pcnt)

\* NULL propagates through the arithmetic of the conflict clause
SqlMulInt(x, k) == IF x = Null THEN Null ELSE FracMulInt(x, k)

SqlAdd(x, y) == IF x = Null \/ y = Null THEN Null ELSE FracAdd(x, y)

\* NULLIF(a, b): NULL when the two are equal
NullIf(a, b) == IF a = b THEN Null ELSE FracOfInt(a)

SqlDiv(x, y) == IF x = Null \/ y = Null THEN Null ELSE FracDivInt(x, y[1])

\* COALESCE(x, y): the first of the two that is not NULL
Coalesce(x, y) == IF x # Null THEN x ELSE y

\* COALESCE((stored.avg * stored.count + EXCLUDED.avg * EXCLUDED.count)
\*          / NULLIF(stored.count + EXCLUDED.count, 0), stored.avg)
MergeNullableAvg(oavg, ocnt, pavg, pcnt) ==
    Coalesce(SqlDiv(SqlAdd(SqlMulInt(oavg, ocnt), SqlMulInt(pavg, pcnt)),
                    NullIf(ocnt + pcnt, 0)),
             oavg)

\* faulty variant of the conflict clause: every column is set to EXCLUDED's
MergeBucketOverwrite(o, p) == p

\* ON CONFLICT (bucket key) DO UPDATE SET ...
MergeBucket(o, p) ==
    [measurement_count |-> o.measurement_count + p.measurement_count,
     min_value         |-> Least(o.min_value, p.min_value),
     max_value         |-> Greatest(o.max_value, p.max_value),
     low_quality_count |-> o.low_quality_count + p.low_quality_count,
     avg_value         |-> MergeAvg(o.avg_value, o.measurement_count,
                                    p.avg_value, p.measurement_count),
     avg_systolic      |-> MergeNullableAvg(o.avg_systolic, o.measurement_count,
                                            p.avg_systolic, p.measurement_count),
     avg_diastolic     |-> MergeNullableAvg(o.avg_diastolic, o.measurement_count,
                                            p.avg_diastolic, p.measurement_count),
     avg_quality_score |-> MergeAvg(o.avg_quality_score, o.measurement_count,
                                    p.avg_quality_score, p.measurement_count)]

\* INSERT one partial group, merging into the bucket of its key when there is one
UpsertBucket(a, k, p) ==
    IF k \in DOMAIN a THEN [a EXCEPT ![k] = MergeBucket(a[k], p)]
    ELSE [x \in DOMAIN a \cup {k} |-> IF x = k THEN p ELSE a[x]]

\* faulty variant of the merge: the table is rebuilt from the partial groups,
\* so buckets of other keys are gone
UpsertMeasurementAggsRebuild(f, a, ids) ==
    LET src  == SrcRows(f, ids)
        keys == {BucketKey(r) : r \in src}
    IN  IF ids = {} \/ keys = {} THEN a
        ELSE [k \in keys |->
                IF k \in DOMAIN a THEN MergeBucket(a[k], PartialAgg(f, src, k))
                ELSE PartialAgg(f, src, k)]

\* faulty variant of the merge: without identifiers it collapses every stored row
UpsertMeasurementAggsUnfiltered(f, a, ids) ==
    LET src  == IF ids = {} THEN SrcRows(f, StoredIds(f)) ELSE SrcRows(f, ids)
        keys == {BucketKey(r) : r \in src}
    IN  [k \in DOMAIN a \cup keys |->
            IF k \notin keys THEN a[k]
            ELSE IF k \in DOMAIN a THEN MergeBucket(a[k], PartialAgg(f, src, k))
            ELSE PartialAgg(f, src, k)]

\* measurement_aggregations after upsert_measurement_aggs(ids) on facts f
UpsertMeasurementAggs(f, a, ids) ==
    IF ids = {} THEN a
    ELSE LET src  == SrcRows(f, ids)
             keys == {BucketKey(r) : r \in src}
         IN  IF keys = {} THEN a
             ELSE [k \in DOMAIN a \cup keys |->
                     IF k \notin keys THEN a[k]
                     ELSE IF k \in DOMAIN a THEN MergeBucket(a[k], PartialAgg(f, src, k))
                     ELSE PartialAgg(f, src, k)]

(***************************************************************************)
(* load_data: dimension upserts and COPY in one transaction, commit, then  *)
(* the aggregation merge over the batch's identifiers.                     *)
(***************************************************************************)
CopyInto(f, batch) == [r \in Universe |-> f[r] + (IF r \in batch THEN 1 ELSE 0)]

\* faulty variant of the load transaction: it also deletes the buckets of the
\* keys of its rows
LoadTxDropBuckets(db, batch) ==
    [db EXCEPT
        !.studies      = UpsertKeys(@, {r.study_id : r \in batch}),
        !.participants = UpsertKeys(@, {r.participant_id : r \in batch}),
        !.enrollments  = UpsertEnrollments(@, batch),
        !.sites        = UpsertKeys(@, {r.site_id : r \in batch}),
        !.facts        = CopyInto(@, batch),
        !.aggs         = [k \in DOMAIN @ \ {BucketKey(r) : r \in batch} |-> @[k]]]

\* faulty variant of the load transaction: the sites of the batch are not registered
LoadTxSkipSites(db, batch) ==
    [db EXCEPT
        !.studies      = UpsertKeys(@, {r.study_id : r \in batch}),
        !.participants = UpsertKeys(@, {r.participant_id : r \in batch}),
        !.enrollments  = UpsertEnrollments(@, batch),
        !.facts        = CopyInto(@, batch)]

\* the transaction of load_data as it stands when conn.commit() is reached
LoadTx(db, batch) ==
    [db EXCEPT
        !.studies      = UpsertKeys(@, {r.study_id : r \in batch}),
        !.participants = UpsertKeys(@, {r.participant_id : r \in batch}),
        !.enrollments  = UpsertEnrollments(@, batch),
        !.sites        = UpsertKeys(@, {r.site_id : r \in batch}),
        !.facts        = CopyInto(@, batch)]

\* faulty variant of load_data: the rows are appended and committed whether or
\* not one of their identifiers is stored
LoadDataAppend(db, batch) ==
    LET c == LoadTx(db, batch)
    IN  [db      |-> [c EXCEPT !.aggs = UpsertMeasurementAggs(c.facts, c.aggs, IdsOf(batch))],
         outcome |-> "ok", merged |-> TRUE]

\* faulty variant of load_data: the merge runs whether or not COPY went through
LoadDataMergeAlways(db, batch) ==
    LET c == IF UniqueViolation(db.facts, batch) THEN db ELSE LoadTx(db, batch)
    IN  [db      |-> [c EXCEPT !.aggs = UpsertMeasurementAggs(c.facts, c.aggs, IdsOf(batch))],
         outcome |-> IF UniqueViolation(db.facts, batch) THEN "error" ELSE "ok",
         merged  |-> TRUE]

\* faulty variant of load_data: the dimension upserts are committed before COPY runs
LoadDataDimsFirst(db, batch) ==
    IF UniqueViolation(db.facts, batch)
    THEN [db |-> [LoadTx(db, batch) EXCEPT !.facts = db.facts],
          outcome |-> "error", merged |-> FALSE]
    ELSE LET c == LoadTx(db, batch)
         IN  [db      |-> [c EXCEPT !.aggs = UpsertMeasurementAggs(c.facts, c.aggs, IdsOf(batch))],
              outcome |-> "ok", merged |-> TRUE]

LoadData(db, batch) ==
    IF UniqueViolation(db.facts, batch)
    THEN \* COPY raises: the transaction is never committed
         [db |-> db, outcome |-> "error", merged |-> FALSE]
    ELSE LET c == LoadTx(db, batch)
         IN  [db      |-> [c EXCEPT !.aggs = UpsertMeasurementAggs(c.facts, c.aggs, IdsOf(batch))],
              outcome |-> "ok", merged |-> TRUE]

(***************************************************************************)
(* Spec: calls on the single-machine path, one at a time.                  *)
(***************************************************************************)
IdleConc ==
    /\ pc = <<>>
    /\ jobBatch = <<>>
    /\ jobRows = <<>>
    /\ txAggs = <<>>
    /\ stmtSnap = <<>>
    /\ base = EmptyDB

IdleExt ==
    /\ udfLog = <<>>
    /\ pending = {}
    /\ twin = EmptyDB
    /\ jobPc = "idle"
    /\ jobFile = "none"
    /\ jobStatus = "none"
    /\ jobMessage = "none"
    /\ jobTrail = <<>>
    /\ jobLog = <<>>
    /\ conns = {}

Init ==
    /\ facts = NoFacts
    /\ studies = {}
    /\ participants = {}
    /\ sites = {}
    /\ enrollments = EmptyDB.enrollments
    /\ aggs = EmptyAggs
    /\ mergedRows = NoFacts
    /\ hist = <<>>
    /\ calls = 0
    /\ remerges = 0
    /\ pre = EmptyDB
    /\ idLog = <<>>
    /\ IdleConc
    /\ IdleExt

\* the rows a merge over ids folds into their buckets, added to the history
Folded(m, f, ids) ==
    [r \in Universe |-> m[r] + (IF IdCol[r] \in ids THEN f[r] ELSE 0)]

SetStore(db) ==
    /\ facts' = db.facts
    /\ studies' = db.studies
    /\ participants' = db.participants
    /\ sites' = db.sites
    /\ enrollments' = db.enrollments
    /\ aggs' = db.aggs

\* the history keeps the last two calls
Record(h, call) == IF Len(h) < 2 THEN Append(h, call) ELSE <<h[2], call>>

\* process_etl_job reaches load_data with the rows of one file
CallLoadData(batch) ==
    /\ calls < MaxCalls
    /\ LET r == LoadData(DB, batch)
       IN  /\ SetStore(r.db)
           /\ mergedRows' = IF r.merged THEN Folded(mergedRows, r.db.facts, IdsOf(batch))
                            ELSE mergedRows
           /\ hist' = Record(hist, [op |-> "load_data", batch |-> batch,
                                    ids |-> IdsOf(batch), outcome |-> r.outcome])
    /\ calls' = calls + 1
    /\ pre' = DB
    /\ UNCHANGED <<remerges, idLog, extVars, concVars>>

\* upsert_measurement_aggs called on its own with a list of identifiers
CallUpsertMeasurementAggs(ids) ==
    /\ calls < MaxCalls
    /\ remerges < MaxRemerge
    /\ aggs' = UpsertMeasurementAggs(facts, aggs, ids)
    /\ mergedRows' = Folded(mergedRows, facts, ids)
    /\ hist' = Record(hist, [op |-> "upsert_measurement_aggs", batch |-> {},
                             ids |-> ids, outcome |-> "ok"])
    /\ calls' = calls + 1
    /\ remerges' = remerges + 1
    /\ pre' = DB
    /\ UNCHANGED <<facts, studies, participants, sites, enrollments, idLog, extVars, concVars>>

IdSets == {i \in SUBSET AllIds : Cardinality(i) <= MaxBatch}

Next ==
    \/ \E batch \in Batches : CallLoadData(batch)
    \/ \E ids \in IdSets : CallUpsertMeasurementAggs(ids)

Spec == Init /\ [][Next]_vars

(***************************************************************************)
(* Properties of Spec.                                                     *)
(***************************************************************************)
\* the five statistics of a bucket that the properties compare
Stats(b) ==
    <<b.measurement_count, b.avg_value, b.min_value, b.max_value, b.low_quality_count>>

StatsOf(a) == [k \in DOMAIN a |-> Stats(a[k])]

Last == hist[Len(hist)]

LastIsLoad == Len(hist) > 0 /\ Last.op = "load_data"

PairsOf(batch) == {<<r.participant_id, r.study_id>> : r \in batch}

DistinctIds(batch) ==
    \A r1, r2 \in batch : r1 # r2 => IdCol[r1] # IdCol[r2]

\* the rows of bucket k that merges have folded in, with their multiplicities
MergedCount(k) ==
    SumFn([r \in Universe |-> IF BucketKey(r) = k THEN mergedRows[r] ELSE 0], Universe)

MergedSum(k) ==
    SumFn([r \in Universe |-> IF BucketKey(r) = k THEN mergedRows[r] * ValueNum(r) ELSE 0],
          Universe)

\* C1: a load_data call that repeats the batch of the load_data call right
\* before it leaves the fact store and the statistics of every bucket as that
\* first call left them: it adds no fact row and changes no measurement_count.
C1_IdempotentReplay ==
    (/\ Len(hist) >= 2
     /\ LastIsLoad
     /\ hist[Len(hist) - 1].op = "load_data"
     /\ hist[Len(hist) - 1].batch = Last.batch)
    => /\ facts = pre.facts
       /\ StatsOf(aggs) = StatsOf(pre.aggs)

\* a nonempty batch was loaded and merged, and then loaded again
C1_Witness ==
    /\ Len(hist) >= 2
    /\ LastIsLoad
    /\ hist[Len(hist) - 1].op = "load_data"
    /\ hist[Len(hist) - 1].outcome = "ok"
    /\ hist[Len(hist) - 1].batch = Last.batch
    /\ Cardinality(Last.batch) = 2
    /\ \E k \in DOMAIN aggs : aggs[k].measurement_count = 2

\* C2: a load_data call whose batch holds an identifier already in the fact
\* store completes without error, leaves the stored row as it is, persists the
\* rows whose identifiers are new, and creates no second row with a stored
\* identifier.
C2_InsertOrIgnore ==
    (LastIsLoad /\ IdsOf(Last.batch) \cap StoredIds(pre.facts) # {})
    => /\ Last.outcome = "ok"
       /\ \A r \in Universe : pre.facts[r] > 0 => facts[r] = pre.facts[r]
       /\ \A r \in Last.batch :
             IdCol[r] \notin StoredIds(pre.facts) => facts[r] = 1
       /\ \A i \in AllIds :
             SumFn([r \in Universe |-> IF IdCol[r] = i THEN facts[r] ELSE 0],
                   Universe) <= 1

\* C3: a load_data call either persists every row of its batch together with
\* the studies, participants, sites and enrollments of those rows, or, when the
\* store rejects a row, persists no row of the batch and leaves the four
\* registries as they were.
C3_AtomicLoad ==
    LastIsLoad =>
        \/ /\ Last.outcome = "ok"
           /\ \A r \in Last.batch :
                 /\ facts[r] = pre.facts[r] + 1
                 /\ r.study_id \in studies
                 /\ r.participant_id \in participants
                 /\ r.site_id \in sites
                 /\ <<r.participant_id, r.study_id>> \in DOMAIN enrollments
                 /\ enrollments[<<r.participant_id, r.study_id>>] <= r.timestamp
        \/ /\ Last.outcome = "error"
           /\ UniqueViolation(pre.facts, Last.batch)
           /\ facts = pre.facts
           /\ studies = pre.studies
           /\ participants = pre.participants
           /\ sites = pre.sites
           /\ enrollments = pre.enrollments

\* a rejected batch that names a study, participant and site not yet registered
C3_Witness ==
    /\ LastIsLoad
    /\ Last.outcome = "error"
    /\ \E r \in Last.batch :
          /\ r.study_id \notin studies
          /\ r.participant_id \notin participants
          /\ <<r.participant_id, r.study_id>> \notin DOMAIN enrollments
          /\ facts[r] = 0

\* C4: for every row-set with pairwise distinct identifiers split into two
\* disjoint batches B1 and B2, loading B1 then B2, B2 then B1, and B1 and B2 as
\* one batch, each from the current store, end with the same bucket statistics.
C4_MergeOrderIndependence ==
    \A B1, B2 \in Batches :
        (B1 \cap B2 = {} /\ DistinctIds(B1 \cup B2)) =>
            LET h12 == LoadData(LoadData(DB, B1).db, B2).db
                h21 == LoadData(LoadData(DB, B2).db, B1).db
                hU  == LoadData(DB, B1 \cup B2).db
            IN  /\ StatsOf(h12.aggs) = StatsOf(h21.aggs)
                /\ StatsOf(h12.aggs) = StatsOf(hU.aggs)

\* the same three histories agree when the store holds none of the identifiers
FreshRowSetsAgree ==
    \A B1, B2 \in Batches :
        (/\ B1 \cap B2 = {}
         /\ DistinctIds(B1 \cup B2)
         /\ IdsOf(B1 \cup B2) \cap StoredIds(facts) = {}) =>
            LET h12 == LoadData(LoadData(DB, B1).db, B2).db
                h21 == LoadData(LoadData(DB, B2).db, B1).db
                hU  == LoadData(DB, B1 \cup B2).db
            IN  /\ StatsOf(h12.aggs) = StatsOf(h21.aggs)
                /\ StatsOf(h12.aggs) = StatsOf(hU.aggs)

\* C5: every bucket's measurement_count is the number of rows merged into it,
\* and its avg_value times its measurement_count is the sum of value_num over
\* those rows; a key has a bucket exactly when some row was merged into it.
C5_BucketExactness ==
    /\ \A k \in DOMAIN aggs :
          /\ aggs[k].measurement_count = MergedCount(k)
          /\ FracMulInt(aggs[k].avg_value, aggs[k].measurement_count)
                = FracOfInt(MergedSum(k))
    /\ \A r \in Universe : mergedRows[r] > 0 => BucketKey(r) \in DOMAIN aggs

\* a bucket of two rows has had a third merged into it
C5_Witness ==
    \E k \in DOMAIN aggs \cap DOMAIN pre.aggs :
        /\ pre.aggs[k].measurement_count = 2
        /\ aggs[k].measurement_count = 3
        /\ aggs[k].avg_value = <<107, 1>>

\* C7: no call moves a stored enrolled_at forward or removes it, and a
\* load_data call whose rows for a pair are all later than the stored
\* enrolled_at leaves it unchanged.
C7_EnrollmentMonotonic ==
    /\ \A p \in DOMAIN pre.enrollments :
          p \in DOMAIN enrollments /\ enrollments[p] <= pre.enrollments[p]
    /\ LastIsLoad =>
          \A p \in PairsOf(Last.batch) \cap DOMAIN pre.enrollments :
              FirstSeen(Last.batch, p) > pre.enrollments[p]
                  => enrollments[p] = pre.enrollments[p]

\* a batch with only later timestamps for an enrolled pair was loaded
C7_Witness ==
    /\ LastIsLoad
    /\ Last.outcome = "ok"
    /\ \E p \in PairsOf(Last.batch) \cap DOMAIN pre.enrollments :
          /\ FirstSeen(Last.batch, p) > pre.enrollments[p]
          /\ enrollments[p] = pre.enrollments[p]

\* C8: after the 14:00 row (120) and the 10:00 row (100) were loaded as two
\* single-row batches into the empty store, in either order, both loads went
\* through, enrolled_at of (P1, S1) is 10:00 and avg_value of the bucket is 110.
C8_TwoBatchScenario ==
    (/\ calls = 2
     /\ hist[1].op = "load_data" /\ hist[2].op = "load_data"
     /\ {hist[1].batch, hist[2].batch} = {{R14}, {R10}})
    => /\ hist[1].outcome = "ok" /\ hist[2].outcome = "ok"
       /\ enrollments[<<"P1", "S1">>] = 10
       /\ aggs[BucketKey(R10)].avg_value = <<110, 1>>
       /\ aggs[BucketKey(R10)].measurement_count = 2

\* the 14:00 row was loaded first and the 10:00 row second
C8_Witness ==
    /\ calls = 2
    /\ hist[1].op = "load_data" /\ hist[1].batch = {R14}
    /\ hist[2].op = "load_data" /\ hist[2].batch = {R10}
    /\ enrollments[<<"P1", "S1">>] = 10

\* C12: after one batch was loaded into the empty store there is a bucket for
\* exactly the keys of the batch, each with measurement_count, avg_value,
\* min_value and max_value equal to the count, mean, minimum and maximum of the
\* batch rows of its key and low_quality_count equal to the number of those
\* rows with quality_score below 0.95; the batch of the 10:00 row (100, 0.9)
\* and the 14:00 row (120, 0.99) gives count 2, avg 110, min 100, max 120 and
\* low_quality_count 1.
C12_SingleBatchStatistics ==
    (calls = 1 /\ LastIsLoad /\ Last.outcome = "ok") =>
        /\ DOMAIN aggs = {BucketKey(r) : r \in Last.batch}
        /\ \A k \in DOMAIN aggs :
              LET G == {r \in Last.batch : BucketKey(r) = k}
              IN  /\ aggs[k].measurement_count = Cardinality(G)
                  /\ FracMulInt(aggs[k].avg_value, Cardinality(G))
                        = FracOfInt(SumFn([r \in G |-> r.value], G))
                  /\ aggs[k].min_value \in {r.value : r \in G}
                  /\ \A r \in G : aggs[k].min_value <= r.value /\ r.value <= aggs[k].max_value
                  /\ aggs[k].max_value \in {r.value : r \in G}
                  /\ aggs[k].low_quality_count
                        = Cardinality({r \in G : r.quality_score < LowQualityPct})
        /\ Last.batch = {R10, R14} =>
              /\ DOMAIN aggs = {BucketKey(R10)}
              /\ Stats(aggs[BucketKey(R10)]) = <<2, <<110, 1>>, 100, 120, 1>>

\* the 10:00 row and the 14:00 row were loaded as one batch into the empty store
C12_Witness ==
    /\ calls = 1
    /\ LastIsLoad
    /\ Last.outcome = "ok"
    /\ Last.batch = {R10, R14}
    /\ BucketKey(R10) \in DOMAIN aggs

\* the partial group of bucket k that the last call merged
LastPartial(k) == PartialAgg(facts, SrcRows(facts, Last.ids), k)

\* the keys of the buckets that existed before the last call and that it merged into
LastMergedKeys ==
    IF Len(hist) > 0 /\ Last.outcome = "ok"
    THEN {BucketKey(r) : r \in SrcRows(facts, Last.ids)} \cap DOMAIN pre.aggs
    ELSE {}

\* C13: when a stored bucket is merged with a partial group, avg_systolic and
\* avg_diastolic of the result are non-null whenever the stored or the partial
\* value is non-null, and when exactly one of the two is null the result is
\* the other one.
C13_NullableAverages ==
    \A k \in LastMergedKeys :
        LET o == pre.aggs[k]
            p == LastPartial(k)
            ok(old, part, new) ==
                /\ (old # Null \/ part # Null) => new # Null
                /\ (old = Null /\ part # Null) => new = part
                /\ (old # Null /\ part = Null) => new = old
        IN  /\ ok(o.avg_systolic, p.avg_systolic, aggs[k].avg_systolic)
            /\ ok(o.avg_diastolic, p.avg_diastolic, aggs[k].avg_diastolic)

\* C14: a call of upsert_measurement_aggs on identifiers whose rows a merge
\* has folded in before leaves the five statistics of every bucket as they were.
C14_RemergeIdempotent ==
    (/\ Len(hist) > 0
     /\ Last.op = "upsert_measurement_aggs"
     /\ \A r \in SrcRows(facts, Last.ids) : mergedRows[r] > facts[r])
    => StatsOf(aggs) = StatsOf(pre.aggs)

\* C17: a call of upsert_measurement_aggs with no identifier, or with
\* identifiers none of which is stored, ends without error and leaves the fact
\* rows, the four registries and every bucket as they were.
C17_EmptyMergeNoOp ==
    (/\ Len(hist) > 0
     /\ Last.op = "upsert_measurement_aggs"
     /\ Last.ids \cap StoredIds(pre.facts) = {})
    => /\ Last.outcome = "ok"
       /\ DB = pre

\* the merge was called without identifiers on a store that holds rows and buckets
C17_Witness ==
    /\ Len(hist) > 0
    /\ Last.op = "upsert_measurement_aggs"
    /\ Last.ids = {}
    /\ StoredIds(facts) # {}
    /\ DOMAIN aggs # {}

\* the merge was called with identifiers none of which is stored
C17_WitnessNoMatch ==
    /\ Len(hist) > 0
    /\ Last.op = "upsert_measurement_aggs"
    /\ Last.ids # {}
    /\ Last.ids \cap StoredIds(facts) = {}
    /\ DOMAIN aggs # {}

\* the rows in clinical_measurements: those of the batches loaded so far
StoredRows == {r \in Universe : facts[r] > 0}

\* C18: a load_data call fails only when COPY rejects a fact row, never
\* because a study, participant or site of its batch is registered already;
\* an accepted load adds the keys of its batch that were missing and leaves
\* the registered ones in place; and each registry holds exactly the keys of
\* the rows of the batches loaded so far.
C18_DimensionIdempotence ==
    /\ LastIsLoad =>
          /\ Last.outcome = "error" <=> UniqueViolation(pre.facts, Last.batch)
          /\ Last.outcome = "ok" =>
                /\ studies = pre.studies \cup {r.study_id : r \in Last.batch}
                /\ participants = pre.participants \cup {r.participant_id : r \in Last.batch}
                /\ sites = pre.sites \cup {r.site_id : r \in Last.batch}
    /\ studies = {r.study_id : r \in StoredRows}
    /\ participants = {r.participant_id : r \in StoredRows}
    /\ sites = {r.site_id : r \in StoredRows}

\* an accepted batch named a study, a participant and a site that were all
\* registered, next to other registered keys
C18_Witness ==
    /\ LastIsLoad
    /\ Last.outcome = "ok"
    /\ Last.batch # {}
    /\ \A r \in Last.batch :
          /\ r.study_id \in pre.studies
          /\ r.participant_id \in pre.participants
          /\ r.site_id \in pre.sites
    /\ Cardinality(pre.studies) = 2
    /\ studies = pre.studies

\* the number of rows in clinical_measurements that carry identifier i
RowsWithId(i) ==
    SumFn([r \in Universe |-> IF IdCol[r] = i THEN facts[r] ELSE 0], Universe)

LastPartialKeys ==
    IF Len(hist) > 0 /\ Last.outcome = "ok"
    THEN {BucketKey(r) : r \in SrcRows(facts, Last.ids)}
    ELSE {}

\* C22: a partial group p merged into a stored bucket o gives count
\* o.count + p.count, avg_value (o.avg * o.count + p.avg * p.count) over that
\* count, the smaller min_value, the larger max_value, low_quality_count
\* o.low + p.low and avg_quality_score weighted as avg_value; a partial group
\* whose key had no bucket is stored as it is, field for field.
C22_MergeFormulas ==
    \A k \in LastPartialKeys :
        LET p == LastPartial(k)
            n == aggs[k]
        IN  IF k \in DOMAIN pre.aggs
            THEN LET o == pre.aggs[k]
                 IN  /\ n.measurement_count = o.measurement_count + p.measurement_count
                     /\ FracMulInt(n.avg_value, n.measurement_count)
                           = FracAdd(FracMulInt(o.avg_value, o.measurement_count),
                                     FracMulInt(p.avg_value, p.measurement_count))
                     /\ n.min_value \in {o.min_value, p.min_value}
                     /\ n.min_value <= o.min_value /\ n.min_value <= p.min_value
                     /\ n.max_value \in {o.max_value, p.max_value}
                     /\ n.max_value >= o.max_value /\ n.max_value >= p.max_value
                     /\ n.low_quality_count = o.low_quality_count + p.low_quality_count
                     /\ FracMulInt(n.avg_quality_score, n.measurement_count)
                           = FracAdd(FracMulInt(o.avg_quality_score, o.measurement_count),
                                     FracMulInt(p.avg_quality_score, p.measurement_count))
            ELSE n = p

\* one call merged a partial group of one row into a bucket of two rows with
\* another average, and stored a second partial group under a new key
C22_Witness ==
    /\ \E k \in LastPartialKeys \cap DOMAIN pre.aggs :
          /\ pre.aggs[k].measurement_count = 2
          /\ LastPartial(k).measurement_count = 1
          /\ pre.aggs[k].avg_value # LastPartial(k).avg_value
          /\ aggs[k].measurement_count = 3
    /\ \E k \in LastPartialKeys : k \notin DOMAIN pre.aggs /\ aggs[k] = LastPartial(k)

\* the stored rows of bucket key k whose identifier the last call was given
LastRowsOf(k) == {r \in StoredRows : IdCol[r] \in Last.ids /\ BucketKey(r) = k}

\* C23: what a merge adds to a bucket is computed from exactly the stored rows
\* whose identifier it was given: the count and low_quality_count grow by the
\* number of those rows and of the low-quality ones among them, the value sum
\* (avg_value times count) grows by their values, and min_value and max_value
\* move no further than their smallest and largest value; stored rows of the
\* same key with other identifiers add nothing.
C23_PartialRestrictedToIds ==
    \A k \in LastPartialKeys :
        LET G  == LastRowsOf(k)
            n  == aggs[k]
            o  == IF k \in DOMAIN pre.aggs THEN pre.aggs[k]
                  ELSE [measurement_count |-> 0, low_quality_count |-> 0,
                        avg_value |-> FracOfInt(0),
                        min_value |-> SetMin({r.value : r \in G}),
                        max_value |-> SetMax({r.value : r \in G})]
        IN  /\ G # {}
            /\ n.measurement_count = o.measurement_count + Cardinality(G)
            /\ n.low_quality_count = o.low_quality_count
                  + Cardinality({r \in G : r.quality_score < LowQualityPct})
            /\ FracMulInt(n.avg_value, n.measurement_count)
                  = FracAdd(FracMulInt(o.avg_value, o.measurement_count),
                            FracOfInt(SumFn([r \in G |-> r.value], G)))
            /\ n.min_value = Least(o.min_value, SetMin({r.value : r \in G}))
            /\ n.max_value = Greatest(o.max_value, SetMax({r.value : r \in G}))

\* a merge was given the identifier of one stored row of a bucket key under
\* which a row with another identifier, of smaller value, is stored as well
C23_Witness ==
    \E k \in LastPartialKeys :
        /\ Cardinality(LastRowsOf(k)) = 1
        /\ \E r \in StoredRows :
              /\ BucketKey(r) = k
              /\ IdCol[r] \notin Last.ids
              /\ \A x \in LastRowsOf(k) : r.value < x.value

\* the timestamps of the stored rows of a (participant_id, study_id) pair
StoredTimestamps(pair) ==
    {r.timestamp : r \in {x \in StoredRows : <<x.participant_id, x.study_id>> = pair}}

\* C26: the pairs with an enrollment are the pairs of the stored rows, the
\* enrolled_at of each is the smallest timestamp among the stored rows of the
\* pair, and an accepted load leaves for each pair of its batch the smaller of
\* the stored enrolled_at and the smallest timestamp of the pair in the batch.
C26_EnrollmentValue ==
    /\ DOMAIN enrollments = PairsOf(StoredRows)
    /\ \A p \in DOMAIN enrollments :
          /\ enrollments[p] \in StoredTimestamps(p)
          /\ \A t \in StoredTimestamps(p) : enrollments[p] <= t
    /\ (LastIsLoad /\ Last.outcome = "ok") =>
          \A p \in PairsOf(Last.batch) :
              LET own == {r.timestamp : r \in {x \in Last.batch :
                                <<x.participant_id, x.study_id>> = p}}
                  low == CHOOSE t \in own : \A u \in own : t <= u
              IN  enrollments[p] =
                      IF p \in DOMAIN pre.enrollments /\ pre.enrollments[p] < low
                      THEN pre.enrollments[p] ELSE low

\* a batch of two rows of an enrolled pair, one of them earlier than the
\* stored enrolled_at, was loaded
C26_Witness ==
    /\ LastIsLoad
    /\ Last.outcome = "ok"
    /\ \E p \in PairsOf(Last.batch) \cap DOMAIN pre.enrollments :
          /\ Cardinality({r \in Last.batch : <<r.participant_id, r.study_id>> = p}) = 2
          /\ enrollments[p] < pre.enrollments[p]

\* C27: no step removes a bucket, lowers its measurement_count or its
\* low_quality_count, raises its min_value or lowers its max_value.
C27_BucketLifecycle ==
    [][\A k \in DOMAIN aggs :
          /\ k \in DOMAIN aggs'
          /\ aggs'[k].measurement_count >= aggs[k].measurement_count
          /\ aggs'[k].low_quality_count >= aggs[k].low_quality_count
          /\ aggs'[k].min_value <= aggs[k].min_value
          /\ aggs'[k].max_value >= aggs[k].max_value]_vars

\* a call has merged into one bucket, lowering its min_value, while a bucket
\* of another key was stored
C27_Witness ==
    /\ \E k \in DOMAIN pre.aggs :
          /\ aggs[k].measurement_count > pre.aggs[k].measurement_count
          /\ aggs[k].min_value < pre.aggs[k].min_value
    /\ \E k \in DOMAIN pre.aggs : aggs[k] = pre.aggs[k]

\* C28: a call of upsert_measurement_aggs leaves the fact rows and the four
\* registries as they were; a merge, called directly or by load_data, leaves
\* every bucket as it was whose key is not the key of a stored row with one
\* of the identifiers it was given, and removes none; and the transaction of
\* load_data in front of the merge, run on the store the call found, changes
\* no bucket.
C28_MergeFrame ==
    /\ (Len(hist) > 0 /\ Last.op = "upsert_measurement_aggs") =>
          /\ facts = pre.facts
          /\ studies = pre.studies
          /\ participants = pre.participants
          /\ sites = pre.sites
          /\ enrollments = pre.enrollments
    /\ Len(hist) > 0 =>
          /\ DOMAIN aggs = DOMAIN pre.aggs \cup LastPartialKeys
          /\ \A k \in DOMAIN pre.aggs \ LastPartialKeys : aggs[k] = pre.aggs[k]
          /\ \A k \in LastPartialKeys : LastRowsOf(k) # {}
    /\ (Len(hist) > 0 /\ Last.op = "load_data") =>
          LoadTx(pre, Last.batch).aggs = pre.aggs

\* the merge was called directly with the identifier of a stored row while a
\* bucket of another key was stored: that one is as before, the other has grown
C28_Witness ==
    /\ Len(hist) > 0
    /\ Last.op = "upsert_measurement_aggs"
    /\ LastPartialKeys # {}
    /\ \E k \in DOMAIN pre.aggs \ LastPartialKeys : aggs[k] = pre.aggs[k]
    /\ \E k \in LastPartialKeys \cap DOMAIN pre.aggs : aggs[k] # pre.aggs[k]

\* C30: every stored bucket has measurement_count >= 1, has
\* 0 <= low_quality_count <= measurement_count, and has
\* min_value <= avg_value <= max_value (avg_value = n/d with d > 0).
C30_BucketWellFormed ==
    \A k \in DOMAIN aggs :
        LET b == aggs[k] IN
        /\ b.measurement_count >= 1
        /\ 0 <= b.low_quality_count
        /\ b.low_quality_count <= b.measurement_count
        /\ b.avg_value[2] > 0
        /\ b.min_value * b.avg_value[2] <= b.avg_value[1]
        /\ b.avg_value[1] <= b.max_value * b.avg_value[2]

\* the last call merged a partial group into a stored bucket, which now has
\* its average strictly between its minimum and its maximum and some but not
\* all of its rows counted as low quality
C30_Witness ==
    /\ Len(hist) > 0
    /\ \E k \in LastPartialKeys \cap DOMAIN pre.aggs :
          LET b == aggs[k] IN
          /\ b.measurement_count > pre.aggs[k].measurement_count
          /\ b.min_value * b.avg_value[2] < b.avg_value[1]
          /\ b.avg_value[1] < b.max_value * b.avg_value[2]
          /\ 0 < b.low_quality_count
          /\ b.low_quality_count < b.measurement_count

\* C31: every stored fact row has its study_id among the studies, its
\* participant_id among the participants, its site_id among the sites, and
\* an enrollment of its (participant_id, study_id) pair with an enrolled_at
\* that is not later than the timestamp of the row.
C31_ReferentialCompleteness ==
    \A r \in StoredRows :
        /\ r.study_id \in studies
        /\ r.participant_id \in participants
        /\ r.site_id \in sites
        /\ <<r.participant_id, r.study_id>> \in DOMAIN enrollments
        /\ enrollments[<<r.participant_id, r.study_id>>] <= r.timestamp

\* an accepted load has stored a row of a site that was not registered before,
\* for a pair that was enrolled before with an earlier enrolled_at, which it keeps
C31_Witness ==
    /\ LastIsLoad
    /\ Last.outcome = "ok"
    /\ \E r \in Last.batch :
          /\ facts[r] > 0
          /\ r.site_id \notin pre.sites
          /\ <<r.participant_id, r.study_id>> \in DOMAIN pre.enrollments
          /\ enrollments[<<r.participant_id, r.study_id>>] < r.timestamp

(***************************************************************************)
(* SpecId: make_deterministic_id called on one row after another.          *)
(***************************************************************************)
InitId ==
    /\ facts = NoFacts
    /\ studies = {}
    /\ participants = {}
    /\ sites = {}
    /\ enrollments = EmptyDB.enrollments
    /\ aggs = EmptyAggs
    /\ mergedRows = NoFacts
    /\ hist = <<>>
    /\ calls = 0
    /\ remerges = 0
    /\ pre = EmptyDB
    /\ idLog = <<>>
    /\ IdleConc
    /\ IdleExt

\* df.apply(make_deterministic_id, axis=1), one row of the frame
AssignId(row) ==
    /\ Len(idLog) + Len(udfLog) < MaxIdCalls
    /\ idLog' = Append(idLog, [row |-> row, id |-> MakeDeterministicId(row)])
    /\ UNCHANGED <<storeVars, histVars, extVars, concVars>>

\* spark_transform: the id column of one row, computed by id_udf
AssignRowId(row) ==
    /\ Len(idLog) + Len(udfLog) < MaxIdCalls
    /\ udfLog' = Append(udfLog, [row |-> row, id |-> IdUdf(row)])
    /\ UNCHANGED <<storeVars, histVars, idLog, concVars,
                   pending, twin, jobPc, jobFile, jobStatus, jobMessage, jobTrail, jobLog, conns>>

NextId ==
    \/ \E row \in IdRows : AssignId(row)
    \/ \E row \in IdRows : AssignRowId(row)

SpecId == InitId /\ [][NextId]_vars

\* C9: two calls whose rows differ in one of the five key fields return
\* different identifiers.
C9_CollisionResistance ==
    \A i, j \in DOMAIN idLog :
        KeyFields(idLog[i].row) # KeyFields(idLog[j].row) => idLog[i].id # idLog[j].id

\* C10: two calls whose rows agree on the five key fields return the same
\* identifier, whatever the other columns of the rows and whatever was
\* called in between.
C10_Determinism ==
    \A i, j \in DOMAIN idLog :
        KeyFields(idLog[i].row) = KeyFields(idLog[j].row) => idLog[i].id = idLog[j].id

\* two calls on rows with the same key fields and different sites
C10_Witness ==
    \E i, j \in DOMAIN idLog :
        /\ i < j
        /\ KeyFields(idLog[i].row) = KeyFields(idLog[j].row)
        /\ idLog[i].row.site_id # idLog[j].row.site_id
        /\ idLog[i].id = idLog[j].id

\* C11: a row given to make_deterministic_id on the single-machine path and to
\* id_udf (make_row_id) on the distributed path gets the same identifier on both.
C11_EngineIndependence ==
    \A i \in DOMAIN idLog, j \in DOMAIN udfLog :
        idLog[i].row = udfLog[j].row => idLog[i].id = udfLog[j].id

(***************************************************************************)
(* SpecRecover: jobs one at a time, where a job may stop between the       *)
(* commit of load_data and the commit of the merge it triggers; the merge  *)
(* is then run once more with the identifiers of that job.  twin is the    *)
(* store of the same jobs when none of them stops.                         *)
(***************************************************************************)
\* the files offered to load_data in SpecRecover
RecBatches ==
    {b \in SUBSET {R10, R12, R14, R38} : b # {} /\ Cardinality(b) <= MaxBatch}

\* load_data run to its end
RecLoad(batch) ==
    /\ calls < MaxCalls
    /\ LET r == LoadData(DB, batch)
       IN  /\ SetStore(r.db)
           /\ mergedRows' = IF r.merged THEN Folded(mergedRows, r.db.facts, IdsOf(batch))
                            ELSE mergedRows
           /\ hist' = Record(hist, [op |-> "load_data", batch |-> batch,
                                    ids |-> IdsOf(batch), outcome |-> r.outcome])
    /\ twin' = LoadData(twin, batch).db
    /\ calls' = calls + 1
    /\ pre' = DB
    /\ UNCHANGED <<remerges, idLog, concVars, udfLog, pending,
                   jobPc, jobFile, jobStatus, jobMessage, jobTrail, jobLog, conns>>

\* load_data reaches conn.commit(), and the job ends before the transaction
\* of upsert_measurement_aggs commits
RecLoadStopped(batch) ==
    /\ calls < MaxCalls
    /\ pending = {}
    /\ ~UniqueViolation(facts, batch)
    /\ SetStore(LoadTx(DB, batch))
    /\ pending' = IdsOf(batch)
    /\ hist' = Record(hist, [op |-> "load_data", batch |-> batch,
                             ids |-> IdsOf(batch), outcome |-> "stopped"])
    /\ twin' = LoadData(twin, batch).db
    /\ calls' = calls + 1
    /\ pre' = DB
    /\ UNCHANGED <<mergedRows, remerges, idLog, concVars, udfLog,
                   jobPc, jobFile, jobStatus, jobMessage, jobTrail, jobLog, conns>>

\* upsert_measurement_aggs run once with the identifiers of the stopped job
RecMerge ==
    /\ pending # {}
    /\ aggs' = UpsertMeasurementAggs(facts, aggs, pending)
    /\ mergedRows' = Folded(mergedRows, facts, pending)
    /\ hist' = Record(hist, [op |-> "upsert_measurement_aggs", batch |-> {},
                             ids |-> pending, outcome |-> "ok"])
    /\ pending' = {}
    /\ pre' = DB
    /\ UNCHANGED <<facts, studies, participants, sites, enrollments, calls, remerges,
                   idLog, concVars, udfLog, twin, jobPc, jobFile, jobStatus, jobMessage, jobTrail, jobLog, conns>>

NextRecover ==
    \/ \E batch \in RecBatches : RecLoad(batch)
    \/ \E batch \in RecBatches : RecLoadStopped(batch)
    \/ RecMerge

SpecRecover == Init /\ [][NextRecover]_vars

FileKinds ==
    {"missing", "unreadable", "bad_timestamp", "no_measurement_type", "invalid_type"}

JobBatches == {b \in SUBSET {R10, R12, R38} : Cardinality(b) <= MaxBatch}

Files ==
    {[kind |-> k, rows |-> {}] : k \in FileKinds}
        \cup {[kind |-> "valid", rows |-> b] : b \in JobBatches}

\* psycopg2.connect in operation op of the running job, and conn.close()
Opened(c, op) == c \cup {[job |-> calls, op |-> op]}

Closed(c, op) == c \ {[job |-> calls, op |-> op]}

\* progress=None, the default of update_etl_job_status
NoProgress == -1

\* faulty variant of the UPDATE: a write without progress sets the column to 0
StatusRowResetProgress(log, status, progress) ==
    [status |-> status, progress |-> IF progress # NoProgress THEN progress ELSE 0]

\* the row of the job behind UPDATE etl_jobs SET status = ..., and progress = ...
\* only "if progress is not None"; log holds the writes before this one
StatusRow(log, status, progress) ==
    [status   |-> status,
     progress |-> IF progress # NoProgress THEN progress
                  ELSE IF log = <<>> THEN NoProgress
                  ELSE log[Len(log)].progress]

\* a write of the status that another write of the same step follows
StatusWritten(log, status, progress) == Append(log, StatusRow(log, status, progress))

\* update_etl_job_status: connect, UPDATE etl_jobs, commit, close; log holds
\* the writes before this one, those of the same step included
UpdateEtlJobStatus(log, status, progress, message) ==
    /\ jobStatus' = status
    /\ jobMessage' = message
    /\ jobLog' = StatusWritten(log, status, progress)
    /\ conns' = Closed(Opened(conns, "update_etl_job_status"), "update_etl_job_status")

\* the connections open when load_data is left: its own is closed only behind
\* the merge, and the one of upsert_measurement_aggs leaves "with conn"
\* committed but not closed
LoadConns(c, batch, outcome) ==
    LET c1 == Opened(c, "load_data")
    IN  IF outcome = "error" THEN c1
        ELSE LET c2 == IF IdsOf(batch) = {} THEN c1
                       ELSE Opened(c1, "upsert_measurement_aggs")
             IN  IF outcome = "merge_error" THEN c2 ELSE Closed(c2, "load_data")

\* str(e) of the exception that leaves load_data
ExcText(outcome) ==
    IF outcome = "error" THEN "duplicate key value violates unique constraint"
    ELSE IF outcome = "merge_error" THEN "error in upsert_measurement_aggs"
    ELSE ""

\* a stage of the running job has been run, with its result
Staged(stage, ok) == Append(jobTrail, [stage |-> stage, ok |-> ok])

\* the worker takes a job from the queue: status running, progress 0
JobStart(file) ==
    /\ jobPc \in {"idle", "ended"}
    /\ calls < MaxJobs
    /\ calls' = calls + 1
    /\ jobFile' = file
    /\ jobPc' = "extract"
    /\ jobStatus' = "running"
    /\ jobMessage' = "Job processing started"
    /\ jobLog' = StatusWritten(<<>>, "running", 0)
    /\ jobTrail' = <<>>
    /\ UNCHANGED <<storeVars, mergedRows, hist, remerges, pre, idLog, concVars,
                   udfLog, pending, twin, conns>>

\* extract_file, and the check of its result
JobExtract ==
    /\ jobPc = "extract"
    /\ IF jobFile.kind \in {"missing", "unreadable"}
       THEN /\ UpdateEtlJobStatus(StatusWritten(jobLog, "failed", NoProgress),
                                  "failed", NoProgress, "File extraction failed")
            /\ jobTrail' = Staged("extract", FALSE)
            /\ jobPc' = "ended"
       ELSE /\ UpdateEtlJobStatus(jobLog, "running", 10, "Extracted rows")
            /\ jobTrail' = Staged("extract", TRUE)
            /\ jobPc' = "transform"
    /\ UNCHANGED <<storeVars, histVars, idLog, concVars, udfLog, pending, twin, jobFile>>

\* transform_data, and the check of its result
JobTransform ==
    /\ jobPc = "transform"
    /\ IF jobFile.kind = "bad_timestamp"
       THEN /\ UpdateEtlJobStatus(StatusWritten(jobLog, "failed", NoProgress),
                                  "failed", NoProgress, "Data transformation failed")
            /\ jobTrail' = Staged("transform", FALSE)
            /\ jobPc' = "ended"
       ELSE /\ UpdateEtlJobStatus(jobLog, "running", 30, "Data transformed")
            /\ jobTrail' = Staged("transform", TRUE)
            /\ jobPc' = "validate"
    /\ UNCHANGED <<storeVars, histVars, idLog, concVars, udfLog, pending, twin, jobFile>>

\* faulty variant of the check behind validate_data: the job goes on to load
\* whatever validate_data returned
JobValidateUnchecked ==
    /\ jobPc = "validate"
    /\ IF jobFile.kind = "no_measurement_type"
       THEN /\ jobPc' = "ended"
            /\ jobTrail' = Staged("validate", FALSE)
            /\ UNCHANGED <<jobStatus, jobMessage, jobLog, conns>>
       ELSE /\ UpdateEtlJobStatus(jobLog,
                                  IF jobFile.kind = "invalid_type" THEN "failed" ELSE "running",
                                  IF jobFile.kind = "invalid_type" THEN NoProgress ELSE 50,
                                  "Validation passed")
            /\ jobTrail' = Staged("validate", jobFile.kind # "invalid_type")
            /\ jobPc' = "load"
    /\ UNCHANGED <<storeVars, histVars, idLog, concVars, udfLog, pending, twin, jobFile>>

\* validate_data, and the check of its result.  Without a measurement_type
\* column df['measurement_type'] raises KeyError behind the column check, and
\* nothing between there and the worker catches it
JobValidate ==
    /\ jobPc = "validate"
    /\ IF jobFile.kind = "no_measurement_type"
       THEN /\ jobPc' = "ended"
            /\ jobTrail' = Staged("validate", FALSE)
            /\ UNCHANGED <<jobStatus, jobMessage, jobLog, conns>>
       ELSE IF jobFile.kind = "invalid_type"
       THEN /\ UpdateEtlJobStatus(StatusWritten(jobLog, "failed", NoProgress),
                                  "failed", NoProgress, "Validation failed")
            /\ jobTrail' = Staged("validate", FALSE)
            /\ jobPc' = "ended"
       ELSE /\ UpdateEtlJobStatus(jobLog, "running", 50, "Validation passed")
            /\ jobTrail' = Staged("validate", TRUE)
            /\ jobPc' = "load"
    /\ UNCHANGED <<storeVars, histVars, idLog, concVars, udfLog, pending, twin, jobFile>>

\* faulty variant of the load step: the exception of load_data is swallowed and
\* the job is marked completed
JobLoadSwallow ==
    /\ jobPc = "load"
    /\ LET r == LoadData(DB, jobFile.rows)
       IN  /\ SetStore(r.db)
           /\ mergedRows' = IF r.merged
                            THEN Folded(mergedRows, r.db.facts, IdsOf(jobFile.rows))
                            ELSE mergedRows
           /\ hist' = Record(hist, [op |-> "load_data", batch |-> jobFile.rows,
                                    ids |-> IdsOf(jobFile.rows), outcome |-> r.outcome])
           /\ conns' = LoadConns(conns, jobFile.rows, r.outcome)
           /\ jobTrail' = IF r.outcome = "ok"
                          THEN jobTrail \o <<[stage |-> "load", ok |-> TRUE],
                                             [stage |-> "aggregate", ok |-> TRUE]>>
                          ELSE Staged("load", FALSE)
    /\ jobStatus' = "completed"
    /\ jobMessage' = "Job completed successfully"
    /\ jobLog' = StatusWritten(jobLog, "completed", 100)
    /\ pre' = DB
    /\ jobPc' = "ended"
    /\ UNCHANGED <<calls, remerges, idLog, concVars, udfLog, pending, twin, jobFile>>

\* load_data inside try / except Exception, then the final status: the load
\* transaction commits and the merge behind it commits, or COPY raises
JobLoad ==
    /\ jobPc = "load"
    /\ LET r == LoadData(DB, jobFile.rows)
       IN  /\ SetStore(r.db)
           /\ mergedRows' = IF r.merged
                            THEN Folded(mergedRows, r.db.facts, IdsOf(jobFile.rows))
                            ELSE mergedRows
           /\ hist' = Record(hist, [op |-> "load_data", batch |-> jobFile.rows,
                                    ids |-> IdsOf(jobFile.rows), outcome |-> r.outcome])
           /\ conns' = LoadConns(conns, jobFile.rows, r.outcome)
           /\ jobStatus' = IF r.outcome = "ok" THEN "completed" ELSE "failed"
           /\ jobLog' = IF r.outcome = "ok"
                        THEN StatusWritten(StatusWritten(jobLog, "running", 90), "completed", 100)
                        ELSE StatusWritten(jobLog, "failed", NoProgress)
           /\ jobMessage' = IF r.outcome = "ok" THEN "Job completed successfully"
                            ELSE ExcText(r.outcome)
           /\ jobTrail' = IF r.outcome = "ok"
                          THEN jobTrail \o <<[stage |-> "load", ok |-> TRUE],
                                             [stage |-> "aggregate", ok |-> TRUE]>>
                          ELSE Staged("load", FALSE)
    /\ pre' = DB
    /\ jobPc' = "ended"
    /\ UNCHANGED <<calls, remerges, idLog, concVars, udfLog, pending, twin, jobFile>>

\* load_data inside try / except Exception where the load transaction commits
\* and a statement of upsert_measurement_aggs raises: the merge transaction
\* is rolled back and the exception leaves load_data
JobLoadMergeRaises ==
    /\ jobPc = "load"
    /\ jobFile.rows # {}
    /\ ~UniqueViolation(facts, jobFile.rows)
    /\ SetStore(LoadTx(DB, jobFile.rows))
    /\ hist' = Record(hist, [op |-> "load_data", batch |-> jobFile.rows,
                             ids |-> IdsOf(jobFile.rows), outcome |-> "merge_error"])
    /\ conns' = LoadConns(conns, jobFile.rows, "merge_error")
    /\ jobStatus' = "failed"
    /\ jobMessage' = ExcText("merge_error")
    /\ jobLog' = StatusWritten(jobLog, "failed", NoProgress)
    /\ jobTrail' = jobTrail \o <<[stage |-> "load", ok |-> TRUE],
                                 [stage |-> "aggregate", ok |-> FALSE]>>
    /\ pre' = DB
    /\ jobPc' = "ended"
    /\ UNCHANGED <<mergedRows, calls, remerges, idLog, concVars, udfLog, pending, twin, jobFile>>

NextJob ==
    \/ \E file \in Files : JobStart(file)
    \/ JobExtract
    \/ JobTransform
    \/ JobValidate
    \/ JobLoad
    \/ JobLoadMergeRaises

SpecJob == Init /\ [][NextJob]_vars

\* the job ran load_data and it raised, in COPY or in the merge behind the commit
LoadRaised ==
    /\ Len(jobTrail) > 0
    /\ jobTrail[Len(jobTrail)].stage \in {"load", "aggregate"}
    /\ ~jobTrail[Len(jobTrail)].ok

\* C24: a job whose load_data raised, in the bulk load or in the merge, has
\* status failed with the text of the exception as its message and is at its
\* end; it has run no stage twice; and the only step behind the end of a job
\* is the start of the next one, so nothing is written for the job afterwards.
C24_LoadFailureStopsJob ==
    /\ [](LoadRaised =>
            /\ jobPc = "ended"
            /\ jobStatus = "failed"
            /\ jobMessage = ExcText(Last.outcome)
            /\ jobMessage # ""
            /\ \A i, j \in DOMAIN jobTrail :
                  i # j => jobTrail[i].stage # jobTrail[j].stage)
    /\ [][jobPc = "ended" => (jobPc' = "extract" /\ calls' = calls + 1)]_vars

\* the merge behind a committed load raised
C24_Witness ==
    /\ LoadRaised
    /\ jobTrail[Len(jobTrail)].stage = "aggregate"
    /\ \A r \in jobFile.rows : facts[r] = 1 /\ mergedRows[r] = 0
    /\ jobStatus = "failed"

\* COPY raised on a stored identifier
C24_WitnessCopy ==
    /\ LoadRaised
    /\ jobTrail[Len(jobTrail)].stage = "load"
    /\ jobStatus = "failed"

\* the stages of a job in their order
StageOrder == <<"extract", "transform", "validate", "load", "aggregate">>

\* C25: the stages a job has run are the first ones of Extract, Transform,
\* Validate, Load, Aggregate in that order, every one but the last of them
\* succeeded, and a job has status completed only when all five have
\* succeeded, the rows of its batch and their study, participant, site and
\* enrollment are stored and the merge has folded each row into its bucket.
C25_StageOrdering ==
    /\ Len(jobTrail) <= Len(StageOrder)
    /\ \A i \in DOMAIN jobTrail :
          /\ jobTrail[i].stage = StageOrder[i]
          /\ i < Len(jobTrail) => jobTrail[i].ok
    /\ jobStatus = "completed" =>
          /\ Len(jobTrail) = Len(StageOrder)
          /\ \A i \in DOMAIN jobTrail : jobTrail[i].ok
          /\ \A r \in jobFile.rows :
                /\ facts[r] = 1
                /\ r.study_id \in studies
                /\ r.participant_id \in participants
                /\ r.site_id \in sites
                /\ <<r.participant_id, r.study_id>> \in DOMAIN enrollments
                /\ mergedRows[r] = 1
                /\ BucketKey(r) \in DOMAIN aggs

\* a job with two rows has run all five stages and is completed
C25_Witness ==
    /\ jobStatus = "completed"
    /\ Len(jobTrail) = Len(StageOrder)
    /\ Cardinality(jobFile.rows) = 2
    /\ calls = 2

\* the progress values that process_etl_job and the stages it calls report
ProgressSteps == {0, 10, 30, 50, 90, 100}

\* C32: within one run of process_etl_job the progress of the job's row is
\* one of 0, 10, 30, 50, 90, 100 and never goes down from one write to the
\* next; a write of completed leaves progress 100; behind a write of failed
\* or completed every later write has the same status; and the status of
\* the row is the one of the last write.
C32_StatusStateMachine ==
    /\ \A i \in DOMAIN jobLog :
          /\ jobLog[i].progress \in ProgressSteps
          /\ jobLog[i].status \in {"running", "failed", "completed"}
          /\ jobLog[i].status = "completed" => jobLog[i].progress = 100
          /\ \A j \in DOMAIN jobLog :
                i < j =>
                    /\ jobLog[i].progress <= jobLog[j].progress
                    /\ jobLog[i].status \in {"failed", "completed"} =>
                            jobLog[j].status = jobLog[i].status
    /\ jobLog # <<>> => jobStatus = jobLog[Len(jobLog)].status
    /\ jobPc # "idle" => jobLog # <<>>

\* a job has written running with 0, 10, 30, 50 and 90 and then completed with 100
C32_Witness ==
    /\ jobPc = "ended"
    /\ Len(jobLog) = Cardinality(ProgressSteps)
    /\ \A i \in DOMAIN jobLog : i < Len(jobLog) =>
          /\ jobLog[i].status = "running"
          /\ jobLog[i].progress < jobLog[i + 1].progress
    /\ jobLog[Len(jobLog)] = [status |-> "completed", progress |-> 100]

\* a job has written failed twice behind running with 30, the progress staying at 30
C32_WitnessFailed ==
    /\ jobPc = "ended"
    /\ Len(jobLog) > 3
    /\ jobLog[Len(jobLog) - 2] = [status |-> "running", progress |-> 30]
    /\ jobLog[Len(jobLog) - 1] = [status |-> "failed", progress |-> 30]
    /\ jobLog[Len(jobLog)] = [status |-> "failed", progress |-> 30]

\* C16: whatever the file, a job that has ended has status completed or failed.
C16_TerminalStatus ==
    jobPc = "ended" => jobStatus \in {"completed", "failed"}

\* C19: no store connection is open once the operation that opened it has
\* been left, whichever way it was left.
C19_ConnectionRelease == conns = {}

(***************************************************************************)
(* SpecSpark: etl_spark_job.main, one job after another, one stage at a    *)
(* time.  Frames are lazy: id_udf runs on the rows when the JDBC write     *)
(* evaluates them, not when spark_transform adds the column, and the       *)
(* counts of spark_extract and spark_validate do not need the id column.   *)
(***************************************************************************)

\* the names bound in the module etl_spark_job when main runs
SparkNames ==
    {"sys", "os", "SparkSession", "DataFrame", "psycopg2", "datetime", "logger",
     "update_etl_job_status", "get_db_cursor", "make_row_id", "upsert_measurement_aggs",
     "trim", "to_timestamp", "col", "to_date", "count", "avg", "min", "max", "when",
     "udf", "StringType", "id_udf", "spark_extract", "spark_transform",
     "VALID_MEASUREMENTS", "spark_validate", "spark_load",
     "upsert_dimensions_and_aggregations", "main"}

\* df.write.format("jdbc")...mode("append").save(): the rows are evaluated,
\* id column included, and appended to clinical_measurements
SparkWrite(db, rows) ==
    IF \E r \in rows : IdUdf(r) = Raised("NameError")
    THEN [db |-> db, outcome |-> "udf_error"]
    ELSE IF UniqueViolation(db.facts, rows)
    THEN [db |-> db, outcome |-> "error"]
    ELSE [db |-> [db EXCEPT !.facts = CopyInto(@, rows)], outcome |-> "ok"]

\* str(e) of the exception that main catches
SparkExcText(outcome) ==
    IF outcome = "udf_error" THEN "name 'make_deterministic_id' is not defined"
    ELSE IF outcome = "error" THEN "duplicate key value violates unique constraint"
    ELSE IF outcome = "name_error" THEN "name 'upsert_dimensions' is not defined"
    ELSE ""

\* the rows that the frame of the running job holds; a file with a timestamp
\* that does not parse has at least one row
SparkFrame(file) == IF file.kind = "bad_timestamp" THEN {R10} ELSE file.rows

\* spark-submit starts main for a job; main writes no status before spark_extract
SparkStart(file) ==
    /\ jobPc \in {"idle", "ended"}
    /\ calls < MaxJobs
    /\ calls' = calls + 1
    /\ jobFile' = file
    /\ jobPc' = "extract"
    /\ jobStatus' = "none"
    /\ jobMessage' = "none"
    /\ jobLog' = <<>>
    /\ jobTrail' = <<>>
    /\ UNCHANGED <<storeVars, mergedRows, hist, remerges, pre, idLog, concVars,
                   udfLog, pending, twin, conns>>

\* spark_extract: a missing file ends the job through sys.exit(1), a read that
\* raises ends it through the except clause of main
SparkExtract ==
    /\ jobPc = "extract"
    /\ IF jobFile.kind = "missing"
       THEN /\ UpdateEtlJobStatus(jobLog, "failed", NoProgress, "File not found")
            /\ jobTrail' = Staged("extract", FALSE)
            /\ jobPc' = "ended"
       ELSE IF jobFile.kind = "unreadable"
       THEN /\ UpdateEtlJobStatus(jobLog, "failed", NoProgress, "error in spark.read")
            /\ jobTrail' = Staged("extract", FALSE)
            /\ jobPc' = "ended"
       ELSE /\ UpdateEtlJobStatus(jobLog, "running", 10, "Extracted rows")
            /\ jobTrail' = Staged("extract", TRUE)
            /\ jobPc' = "transform"
    /\ UNCHANGED <<storeVars, histVars, idLog, concVars, udfLog, pending, twin, jobFile>>

\* spark_transform: the columns are resolved when withColumn is called, so a
\* frame without measurement_type raises there; to_timestamp and id_udf run later
SparkTransform ==
    /\ jobPc = "transform"
    /\ IF jobFile.kind = "no_measurement_type"
       THEN /\ UpdateEtlJobStatus(jobLog, "failed", NoProgress, "cannot resolve measurement_type")
            /\ jobTrail' = Staged("transform", FALSE)
            /\ jobPc' = "ended"
       ELSE /\ UpdateEtlJobStatus(jobLog, "running", 30, "Data transformed")
            /\ jobTrail' = Staged("transform", TRUE)
            /\ jobPc' = "validate"
    /\ UNCHANGED <<storeVars, histVars, idLog, concVars, udfLog, pending, twin, jobFile>>

\* spark_validate: the column check, then the count of rows of another type
SparkValidate ==
    /\ jobPc = "validate"
    /\ IF jobFile.kind = "invalid_type"
       THEN /\ UpdateEtlJobStatus(jobLog, "failed", NoProgress, "Invalid measurement types present")
            /\ jobTrail' = Staged("validate", FALSE)
            /\ jobPc' = "ended"
       ELSE /\ UpdateEtlJobStatus(jobLog, "running", 50, "Validation passed")
            /\ jobTrail' = Staged("validate", TRUE)
            /\ jobPc' = "load"
    /\ UNCHANGED <<storeVars, histVars, idLog, concVars, udfLog, pending, twin, jobFile>>

\* spark_load inside try / except Exception of main, then the final status:
\* the JDBC write, the status with progress 90, the call of upsert_dimensions,
\* the status with progress 95, and "completed" back in main
SparkLoad ==
    /\ jobPc = "load"
    /\ LET rows == SparkFrame(jobFile)
           w    == SparkWrite(DB, rows)
           out  == IF w.outcome # "ok" THEN w.outcome
                   ELSE IF "upsert_dimensions" \in SparkNames THEN "ok"
                   ELSE "name_error"
       IN  /\ SetStore(w.db)
           /\ hist' = Record(hist, [op |-> "spark_load", batch |-> rows,
                                    ids |-> IdsOf(rows), outcome |-> out])
           /\ UpdateEtlJobStatus(
                 IF w.outcome # "ok" THEN jobLog
                 ELSE IF out # "ok" THEN StatusWritten(jobLog, "running", 90)
                 ELSE StatusWritten(StatusWritten(jobLog, "running", 90), "running", 95),
                 IF out = "ok" THEN "completed" ELSE "failed",
                 IF out = "ok" THEN 100 ELSE NoProgress,
                 IF out = "ok" THEN "ETL succeeded" ELSE SparkExcText(out))
           /\ jobTrail' = IF w.outcome # "ok" THEN Staged("write", FALSE)
                          ELSE jobTrail \o <<[stage |-> "write", ok |-> TRUE],
                                             [stage |-> "upsert_dimensions", ok |-> out = "ok"]>>
    /\ pre' = DB
    /\ jobPc' = "ended"
    /\ UNCHANGED <<mergedRows, calls, remerges, idLog, concVars, udfLog, pending, twin, jobFile>>

NextSpark ==
    \/ \E file \in Files : SparkStart(file)
    \/ SparkExtract
    \/ SparkTransform
    \/ SparkValidate
    \/ SparkLoad

SpecSpark == Init /\ [][NextSpark]_vars

\* the JDBC write of the running job has returned
SparkWritten ==
    \E i \in DOMAIN jobTrail : jobTrail[i] = [stage |-> "write", ok |-> TRUE]

\* the driver-side steps of the running job that ran to their end
SparkCoordinated ==
    {i \in DOMAIN jobTrail : jobTrail[i] = [stage |-> "upsert_dimensions", ok |-> TRUE]}

\* C29: a Spark job that has ended after its bulk write returned has run the
\* driver-side step of dimension upserts and merge exactly once, over the
\* rows of the whole batch, so that every stored row of the batch is merged
\* and registered; and a job is completed only with that step behind it.
C29_SparkCoordination ==
    /\ (jobPc = "ended" /\ SparkWritten) =>
          /\ Cardinality(SparkCoordinated) = 1
          /\ \A r \in SparkFrame(jobFile) :
                /\ mergedRows[r] = facts[r]
                /\ r.study_id \in studies
    /\ jobStatus = "completed" => SparkCoordinated # {}

(***************************************************************************)
(* SpecConc: two jobs on one store.  load_data's transaction (dimension    *)
(* upserts and COPY) commits in one step; the merge transaction runs the   *)
(* collapse query, then the INSERT ... ON CONFLICT DO UPDATE statement one *)
(* partial group at a time, then commits.  A bucket row written by an open *)
(* transaction stays locked until that transaction ends.                   *)
(***************************************************************************)
Jobs == {1, 2}

Other(j) == CHOOSE o \in Jobs : o # j

\* the stores SpecConc starts from: empty, and after one earlier job
ConcBases == {EmptyDB, LoadData(EmptyDB, {R14}).db}

InitConc ==
    /\ \E b \in ConcBases :
          /\ base = b
          /\ facts = b.facts
          /\ studies = b.studies
          /\ participants = b.participants
          /\ sites = b.sites
          /\ enrollments = b.enrollments
          /\ aggs = b.aggs
    /\ mergedRows = NoFacts
    /\ hist = <<>>
    /\ calls = 0
    /\ remerges = 0
    /\ pre = EmptyDB
    /\ idLog = <<>>
    /\ pc = [j \in Jobs |-> "load"]
    /\ jobBatch \in [Jobs -> ConcBatches]
    /\ jobRows = [j \in Jobs |-> EmptyAggs]
    /\ txAggs = [j \in Jobs |-> EmptyAggs]
    /\ stmtSnap = [j \in Jobs |-> EmptyAggs]
    /\ IdleExt

\* faulty variant: COPY appends the rows whether or not an identifier is stored
ConcLoadAppend(j) ==
    /\ pc[j] = "load"
    /\ SetStore(LoadTx(DB, jobBatch[j]))
    /\ pc' = [pc EXCEPT ![j] = "select"]
    /\ UNCHANGED <<histVars, idLog, extVars, jobBatch, jobRows, txAggs, stmtSnap, base>>

\* load_data up to conn.commit()
ConcLoad(j) ==
    /\ pc[j] = "load"
    /\ IF UniqueViolation(facts, jobBatch[j])
       THEN /\ pc' = [pc EXCEPT ![j] = "failed"]
            /\ UNCHANGED storeVars
       ELSE /\ SetStore(LoadTx(DB, jobBatch[j]))
            /\ pc' = [pc EXCEPT ![j] = "select"]
    /\ UNCHANGED <<histVars, idLog, extVars, jobBatch, jobRows, txAggs, stmtSnap, base>>

\* the collapse query over the job's identifiers: rows = cur.fetchall()
ConcSelect(j) ==
    /\ pc[j] = "select"
    /\ LET src  == SrcRows(facts, IdsOf(jobBatch[j]))
           keys == {BucketKey(r) : r \in src}
       IN  /\ jobRows' = [jobRows EXCEPT ![j] = [k \in keys |-> PartialAgg(facts, src, k)]]
           /\ pc' = [pc EXCEPT ![j] = IF keys = {} THEN "done" ELSE "insert"]
    /\ UNCHANGED <<storeVars, histVars, idLog, extVars, jobBatch, txAggs, stmtSnap, base>>

\* execute_values starts the INSERT statement, which takes its snapshot
ConcInsertBegin(j) ==
    /\ pc[j] = "insert"
    /\ stmtSnap' = [stmtSnap EXCEPT ![j] = aggs]
    /\ pc' = [pc EXCEPT ![j] = "upsert"]
    /\ UNCHANGED <<storeVars, histVars, idLog, extVars, jobBatch, jobRows, txAggs, base>>

\* faulty variant: the conflict clause reads the bucket as of the statement's snapshot
ConflictTableSnapshot(j) == stmtSnap[j]

\* the bucket rows ON CONFLICT DO UPDATE reads under the connection's default
\* isolation (read committed): once the row lock is granted, the latest
\* committed version of each
ConflictTable(j) == aggs

LockedByOther(j, k) == k \in DOMAIN txAggs[Other(j)]

\* one row of the VALUES list is inserted, or merged into the bucket of its key
ConcUpsertRow(j, k) ==
    /\ pc[j] = "upsert"
    /\ k \in DOMAIN jobRows[j]
    /\ ~LockedByOther(j, k)
    /\ txAggs' = [txAggs EXCEPT ![j] =
                    [x \in DOMAIN @ \cup {k} |->
                        IF x = k THEN UpsertBucket(ConflictTable(j), k, jobRows[j][k])[k]
                        ELSE @[x]]]
    /\ jobRows' = [jobRows EXCEPT ![j] = [x \in DOMAIN @ \ {k} |-> @[x]]]
    /\ UNCHANGED <<storeVars, histVars, idLog, extVars, pc, jobBatch, stmtSnap, base>>

\* leaving "with conn": the merge transaction commits and its locks are released
ConcCommit(j) ==
    /\ pc[j] = "upsert"
    /\ DOMAIN jobRows[j] = {}
    /\ aggs' = [k \in DOMAIN aggs \cup DOMAIN txAggs[j] |->
                   IF k \in DOMAIN txAggs[j] THEN txAggs[j][k] ELSE aggs[k]]
    /\ txAggs' = [txAggs EXCEPT ![j] = EmptyAggs]
    /\ pc' = [pc EXCEPT ![j] = "done"]
    /\ UNCHANGED <<facts, studies, participants, sites, enrollments,
                   histVars, idLog, extVars, jobBatch, jobRows, stmtSnap, base>>

\* each job waits for a bucket row the other has locked: the store ends one of
\* the two transactions with "deadlock detected", and upsert_measurement_aggs raises
ConcDeadlock(j) ==
    /\ pc[j] = "upsert"
    /\ pc[Other(j)] = "upsert"
    /\ \E k \in DOMAIN jobRows[j] : LockedByOther(j, k)
    /\ \E k \in DOMAIN jobRows[Other(j)] : LockedByOther(Other(j), k)
    /\ txAggs' = [txAggs EXCEPT ![j] = EmptyAggs]
    /\ pc' = [pc EXCEPT ![j] = "failed"]
    /\ UNCHANGED <<storeVars, histVars, idLog, extVars, jobBatch, jobRows, stmtSnap, base>>

NextConc ==
    \E j \in Jobs :
        \/ ConcLoad(j)
        \/ ConcSelect(j)
        \/ ConcInsertBegin(j)
        \/ \E k \in DOMAIN jobRows[j] : ConcUpsertRow(j, k)
        \/ ConcCommit(j)
        \/ ConcDeadlock(j)

SpecConc == InitConc /\ [][NextConc]_vars

\* the rows of both jobs fall into one bucket key, and their identifiers are
\* disjoint and not yet in the store
OneSharedBucket ==
    /\ Cardinality({BucketKey(r) : r \in jobBatch[1] \cup jobBatch[2]}) = 1
    /\ IdsOf(jobBatch[1]) \cap IdsOf(jobBatch[2]) = {}
    /\ IdsOf(jobBatch[1] \cup jobBatch[2]) \cap StoredIds(base.facts) = {}

SharedKey == BucketKey(CHOOSE r \in jobBatch[1] : TRUE)

\* the store after the two jobs ran one after the other
Sequential == LoadData(LoadData(base, jobBatch[1]).db, jobBatch[2]).db

\* C6: when the rows of two concurrent jobs with disjoint identifier sets fall
\* into one bucket key, neither merge fails, and once both jobs are through
\* the bucket's measurement_count and low_quality_count are the previous
\* values plus both partial values and its min, max and avg are those of
\* running the two jobs one after the other.
C6_ConcurrentMerges ==
    OneSharedBucket =>
        /\ \A j \in Jobs : pc[j] # "failed"
        /\ (\A j \in Jobs : pc[j] = "done") =>
              LET prev == IF SharedKey \in DOMAIN base.aggs
                          THEN base.aggs[SharedKey]
                          ELSE [measurement_count |-> 0, low_quality_count |-> 0]
                  low(b) == Cardinality({r \in b : IsLowQuality(r)})
              IN  /\ aggs[SharedKey].measurement_count =
                        prev.measurement_count + Cardinality(jobBatch[1])
                            + Cardinality(jobBatch[2])
                  /\ aggs[SharedKey].low_quality_count =
                        prev.low_quality_count + low(jobBatch[1]) + low(jobBatch[2])
                  /\ Stats(aggs[SharedKey]) = Stats(Sequential.aggs[SharedKey])

\* both INSERT statements started before either merge committed, on a bucket
\* that already existed, and both jobs are through
C6_Witness ==
    /\ OneSharedBucket
    /\ \A j \in Jobs : pc[j] = "done"
    /\ SharedKey \in DOMAIN base.aggs
    /\ \A j \in Jobs : stmtSnap[j] = base.aggs
    /\ aggs[SharedKey].measurement_count = 3

\* C21: when the two jobs were given the same rows, then once both are through,
\* whatever the interleaving of their steps, clinical_measurements holds each
\* identifier of those rows once and no identifier twice, and there is a
\* bucket for exactly the keys of the stored rows, each with measurement_count
\* equal to the number of stored rows of its key.
C21_ConcurrentSameRows ==
    (/\ jobBatch[1] = jobBatch[2]
     /\ \A j \in Jobs : pc[j] \in {"done", "failed"})
    => /\ \A r \in jobBatch[1] : facts[r] = 1
       /\ \A i \in IdsOf(Universe) : RowsWithId(i) <= 1
       /\ DOMAIN aggs = {BucketKey(r) : r \in StoredRows}
       /\ \A k \in DOMAIN aggs :
             aggs[k].measurement_count
                 = Cardinality({r \in StoredRows : BucketKey(r) = k})

\* both jobs were given the same two rows of a bucket that existed, and both
\* are through: one has loaded and merged them, the other was rejected
C21_Witness ==
    /\ jobBatch[1] = jobBatch[2]
    /\ Cardinality(jobBatch[1]) = 2
    /\ \E j \in Jobs : pc[j] = "done" /\ pc[Other(j)] = "failed"
    /\ \E k \in DOMAIN aggs \cap DOMAIN base.aggs : aggs[k].measurement_count = 3

====
